---- MODULE Spec2Model ----
(***************************************************************************)
(* Per-chat state persistence of gdgajubot/data/resources.py:              *)
(* Resources.set_state / get_state / update_states / load_states,          *)
(* Resources.__state_dict and JSONCodec, over the State table.             *)
(* Calls are made one at a time (Spec), by two threads whose set_state     *)
(* calls interleave (SpecRace), or on the codec alone (SpecCodec).          *)
(***************************************************************************)
EXTENDS Integers, Sequences, FiniteSets, TLC

(***************************************************************************)
(* Python values.  Every value is a pair <<type name, payload>>.            *)
(* A str is the sequence of its text pieces; a dict is a function from its  *)
(* (string) keys to values; a list is a sequence of values.                 *)
(***************************************************************************)
PyInt(n) == <<"int", n>>
PyStr(s) == <<"str", s>>
PyList(s) == <<"list", s>>
PyDict(d) == <<"dict", d>>
\* datetime.datetime: the wall-clock digits and the tzinfo ("None" = naive)
PyDatetime(t, tz) == <<"datetime", [stamp |-> t, tzinfo |-> tz]>>
\* an instance of a class json.JSONEncoder does not know
PyObject == <<"object", "opaque">>

EmptyDict == [f \in {} |-> PyInt(0)]

\* dict.copy() followed by dict.pop(key, None)
Pop(d, key) == [f \in (DOMAIN d) \ {key} |-> d[f]]

\* (a slip: a deep merge, where a list is extended by the new list)
UpdateExtending(d, other) ==
    [f \in (DOMAIN d) \cup (DOMAIN other) |->
        IF f \notin DOMAIN other THEN d[f]
        ELSE IF f \in DOMAIN d /\ d[f][1] = "list" /\ other[f][1] = "list"
             THEN PyList(d[f][2] \o other[f][2])
             ELSE other[f]]

\* dict.update(other): shallow overwrite by key
Update(d, other) ==
    [f \in (DOMAIN d) \cup (DOMAIN other) |-> IF f \in DOMAIN other THEN other[f] ELSE d[f]]

\* d[key] = value
SetItem(d, key, value) == [f \in (DOMAIN d) \cup {key} |-> IF f = key THEN value ELSE d[f]]

\* the memory-only key of a chat state, and the key that tags an encoded datetime
MEMORY == "__memory__"
DATETIME == "__datetime__"

(***************************************************************************)
(* DATETIME_FORMAT = '%Y-%m-%dT%H:%M:%S.%f%z'.                             *)
(* The digits up to %f are one text piece; %z prints the UTC offset of an   *)
(* aware datetime and the empty string for a naive one, and on parsing      *)
(* requires an offset.                                                      *)
(***************************************************************************)
Stamps == {"2020-01-01T10:00:00.000000"}
Offsets == {"-0300"}

strftime(dt) ==
    <<dt[2].stamp>> \o (IF dt[2].tzinfo = "None" THEN <<>> ELSE <<dt[2].tzinfo>>)

\* does the text match DATETIME_FORMAT (strptime raises ValueError otherwise)
MatchesFormat(s) == Len(s) = 2 /\ s[1] \in Stamps /\ s[2] \in Offsets

strptime(s) == PyDatetime(s[1], s[2])

(***************************************************************************)
(* JSON text, as its syntax tree.                                           *)
(***************************************************************************)
JNum(n) == <<"number", n>>
JStr(s) == <<"string", s>>
JArr(s) == <<"array", s>>
JObj(m) == <<"object", m>>

\* JSONCodec.Encoder.default: called for a value json cannot serialise
EncoderDefault(obj) == PyDict([__datetime__ |-> PyStr(strftime(obj))])

\* TRUE iff JSONCodec().encode(o) returns (FALSE: raises TypeError)
RECURSIVE Encodable(_)
Encodable(o) ==
    CASE o[1] \in {"int", "str", "datetime"} -> TRUE
      [] o[1] = "list" -> \A i \in DOMAIN o[2] : Encodable(o[2][i])
      [] o[1] = "dict" -> \A f \in DOMAIN o[2] : Encodable(o[2][f])
      [] OTHER -> FALSE

RECURSIVE Enc(_)
Enc(o) ==
    CASE o[1] = "int" -> JNum(o[2])
      [] o[1] = "str" -> JStr(o[2])
      [] o[1] = "list" -> JArr([i \in DOMAIN o[2] |-> Enc(o[2][i])])
      [] o[1] = "dict" -> JObj([f \in DOMAIN o[2] |-> Enc(o[2][f])])
      [] o[1] = "datetime" -> Enc(EncoderDefault(o))

\* JSONCodec.Decoder.object_hook, for a dict it can convert
object_hook(obj) ==
    IF DATETIME \in DOMAIN obj THEN strptime(obj[DATETIME][2]) ELSE PyDict(obj)

\* TRUE iff object_hook(obj) returns (FALSE: strptime raises)
HookReturns(obj) ==
    DATETIME \in DOMAIN obj => (obj[DATETIME][1] = "str" /\ MatchesFormat(obj[DATETIME][2]))

RECURSIVE Dec(_)
Dec(t) ==
    CASE t[1] = "number" -> PyInt(t[2])
      [] t[1] = "string" -> PyStr(t[2])
      [] t[1] = "array" -> PyList([i \in DOMAIN t[2] |-> Dec(t[2][i])])
      [] t[1] = "object" -> object_hook([f \in DOMAIN t[2] |-> Dec(t[2][f])])

\* TRUE iff JSONCodec().decode(t) returns (FALSE: raises)
RECURSIVE Decodable(_)
Decodable(t) ==
    CASE t[1] \in {"number", "string"} -> TRUE
      [] t[1] = "array" -> \A i \in DOMAIN t[2] : Decodable(t[2][i])
      [] t[1] = "object" ->
            /\ \A f \in DOMAIN t[2] : Decodable(t[2][f])
            /\ HookReturns([f \in DOMAIN t[2] |-> Dec(t[2][f])])

\* a returned value, or the exception raised
Return(x) == [ok |-> TRUE, val |-> x]
Raise(e) == [ok |-> FALSE, val |-> e]

\* (a slip: a value the encoder does not know is written as an empty object)
json_encode_lenient(info) == Return(IF Encodable(info) THEN Enc(info) ELSE JObj(EmptyDict))

json_encode(info) == IF Encodable(info) THEN Return(Enc(info)) ELSE Raise("TypeError")

json_decode(info) == IF Decodable(info) THEN Return(Dec(info)) ELSE Raise("ValueError")

(***************************************************************************)
(* The State table: a set of rows (telegram_id, description, info), with    *)
(* primary key (telegram_id, description).                                  *)
(***************************************************************************)
StateIds == {"flow", "poll"}
ChatIds == {42}
Keys == StateIds \X ChatIds

Row(chat_id, state_id, info) ==
    [telegram_id |-> chat_id, description |-> state_id, info |-> info]

\* State[chat_id, state_id] / State.get(telegram_id=..., description=...)
Lookup(d, chat_id, state_id) ==
    {r \in d : r.telegram_id = chat_id /\ r.description = state_id}

\* the outcome of a call on the table: did it return, the value or exception, the table
Outcome(ok, val, d) == [ok |-> ok, val |-> val, db |-> d]

\* @orm.db_session: commit when the call returns, roll back when it raises
db_session(d, r) == IF r.ok THEN r ELSE Outcome(FALSE, r.val, d)

\* (a slip: the scratch field is left in the record that is stored)
StripMemorySkipped(chat_state) == chat_state

\* chat_state = chat_state.copy(); chat_state.pop('__memory__', None)
StripMemory(chat_state) == Pop(chat_state, MEMORY)

\* (a slip: '__memory__' is popped from the dict the caller passed)
caller_chat_state_popped(chat_state) == Pop(chat_state, MEMORY)

\* the dict the caller passed, once set_state is over: the pop acted on the copy
caller_chat_state(chat_state) == chat_state

\* (a slip: no row is created for a record without fields)
InsertRowUnlessEmpty(d, chat_id, state_id, info) ==
    IF DOMAIN info[2] = {} THEN d ELSE d \cup {Row(chat_id, state_id, info)}

\* State(telegram_id=chat_id, description=state_id, info=...)
InsertRow(d, chat_id, state_id, info) == d \cup {Row(chat_id, state_id, info)}

\* Resources.set_state, inside its db_session
set_state_body(d, state_id, chat_id, chat_state) ==
    LET cs == StripMemory(chat_state)
        found == Lookup(d, chat_id, state_id)
    IN  IF found # {}
        THEN LET state == CHOOSE r \in found : TRUE
                 dec == json_decode(state.info)
             IN  IF ~dec.ok THEN Outcome(FALSE, dec.val, d)
                 ELSE IF dec.val[1] # "dict" THEN Outcome(FALSE, "AttributeError", d)
                 ELSE LET enc == json_encode(PyDict(Update(dec.val[2], cs)))
                      IN  IF ~enc.ok THEN Outcome(FALSE, enc.val, d)
                          ELSE Outcome(TRUE, "None",
                                       (d \ {state}) \cup {[state EXCEPT !.info = enc.val]})
        ELSE LET enc == json_encode(PyDict(cs))
             IN  IF ~enc.ok THEN Outcome(FALSE, enc.val, d)
                 ELSE Outcome(TRUE, "None", InsertRow(d, chat_id, state_id, enc.val))

set_state(d, state_id, chat_id, chat_state) ==
    db_session(d, set_state_body(d, state_id, chat_id, chat_state))

\* (a slip: get creates the row it did not find)
get_state_creating(d, state_id, chat_id) ==
    LET found == Lookup(d, chat_id, state_id)
    IN  IF found # {}
        THEN LET dec == json_decode((CHOOSE r \in found : TRUE).info)
             IN  Outcome(dec.ok, dec.val, d)
        ELSE Outcome(TRUE, PyDict(EmptyDict),
                     InsertRow(d, chat_id, state_id, JObj(EmptyDict)))

\* Resources.get_state
get_state(d, state_id, chat_id) ==
    LET found == Lookup(d, chat_id, state_id)
    IN  IF found # {}
        THEN LET dec == json_decode((CHOOSE r \in found : TRUE).info)
             IN  Outcome(dec.ok, dec.val, d)
        ELSE Outcome(TRUE, PyDict(EmptyDict), d)

\* Resources.update_states: the loop over the snapshot, entry by entry
RECURSIVE update_states_loop(_, _)
update_states_loop(d, entries) ==
    IF entries = <<>> THEN Outcome(TRUE, "None", d)
    ELSE LET e == Head(entries)
             r == set_state(d, e[1][1], e[1][2], e[2])
         IN  IF ~r.ok THEN r ELSE update_states_loop(r.db, Tail(entries))

\* (a slip: the sets made before the failing one are kept)
update_states_partial(d, entries) == update_states_loop(d, entries)

update_states(d, entries) == db_session(d, update_states_loop(d, entries))

(***************************************************************************)
(* Resources.load_states and Resources.__state_dict.                        *)
(* The map load_states returns is kept flat: key (state_id, chat_id) to the *)
(* contents of its StateDict; a key outside its domain has not been         *)
(* materialised yet.                                                        *)
(***************************************************************************)
\* (a slip: the scratch field is not reserved)
state_dict_unreserved(data) == data

\* Resources.__state_dict: the contents of the StateDict built from data
state_dict(data) == IF MEMORY \in DOMAIN data THEN data ELSE SetItem(data, MEMORY, PyDict(EmptyDict))

\* (a slip: every dump_function writes to the key of the last row scanned)
dump_function_last_key(d, key, state) == set_state(d, "poll", 42, state)

\* the dump_function of the StateDict of (state_id, chat_id)
dump_function(d, key, state) == set_state(d, key[1], key[2], state)

RowKey(r) == <<r.description, r.telegram_id>>

\* the loop of load_states returns iff every row decodes to a dict
LoadReturns(d) ==
    \A r \in d : Decodable(r.info) /\ Dec(r.info)[1] = "dict"

\* (a slip: a row that does not decode is skipped)
load_states_skipping(d) ==
    LET good == {r \in d : Decodable(r.info) /\ Dec(r.info)[1] = "dict"}
    IN  Outcome(TRUE,
                [key \in {RowKey(r) : r \in good} |->
                    state_dict(Dec((CHOOSE r \in good : RowKey(r) = key).info)[2])],
                d)

load_states(d) ==
    IF LoadReturns(d)
    THEN Outcome(TRUE,
                 [key \in {RowKey(r) : r \in d} |->
                     state_dict(Dec((CHOOSE r \in d : RowKey(r) = key).info)[2])],
                 d)
    ELSE Outcome(FALSE,
                 IF \E r \in d : ~Decodable(r.info) THEN "ValueError" ELSE "TypeError", d)

\* MissingDict.__missing__ with the default factory of load_states:
\* __state_dict(state_id, chat_id, get_state(state_id, chat_id))
default_factory(d, key) ==
    LET g == get_state(d, key[1], key[2])
    IN  IF ~g.ok THEN g
        ELSE IF g.val[1] # "dict" THEN Outcome(FALSE, "TypeError", g.db)
        ELSE Outcome(TRUE, state_dict(g.val[2]), g.db)

\* StateDict: a mutation of the wrapped dict, followed by the dump
StateDict_setitem(d, key, state, field, value) ==
    LET m == SetItem(state, field, value)
        r == dump_function(d, key, m)
    IN  [ok |-> r.ok, val |-> r.val, db |-> r.db, state |-> caller_chat_state(m)]

StateDict_delitem(d, key, state, field) ==
    LET m == Pop(state, field)
        r == dump_function(d, key, m)
    IN  [ok |-> r.ok, val |-> r.val, db |-> r.db, state |-> caller_chat_state(m)]

(***************************************************************************)
(* Inputs of the calls.                                                     *)
(***************************************************************************)
Stamp == CHOOSE t \in Stamps : TRUE
AwareTs == PyDatetime(Stamp, CHOOSE z \in Offsets : TRUE)
NaiveTs == PyDatetime(Stamp, "None")
Scratch == PyDict([n |-> PyInt(1)])

\* records passed to set_state
InputRecords ==
    { [step |-> PyInt(1), ts |-> AwareTs],
      [ts |-> PyInt(2), note |-> PyStr(<<"hi">>)],
      [step |-> PyInt(2), __memory__ |-> Scratch],
      EmptyDict,
      [ts |-> NaiveTs],
      [note |-> PyObject],
      [note |-> PyDict([__datetime__ |-> PyStr(<<"soon">>)])],
      [__datetime__ |-> PyStr(strftime(AwareTs))],
      [note |-> PyList(<<PyInt(1), PyDict([at |-> AwareTs])>>)],
      [note |-> PyDict([__datetime__ |-> PyStr(strftime(AwareTs)), n |-> PyInt(1)])] }

\* values assigned to a field of a StateDict
FieldValues == {PyInt(2), AwareTs, NaiveTs, PyObject}
AssignedFields == {"step", "note"}
ScratchValues == {Scratch}

FlowKey == <<"flow", 42>>
PollKey == <<"poll", 42>>

\* snapshots passed to update_states, in iteration order
Snapshots ==
    { << <<FlowKey, [step |-> PyInt(1), ts |-> AwareTs]>>,
         <<PollKey, [step |-> PyInt(2), __memory__ |-> Scratch]>> >>,
      << <<FlowKey, [note |-> PyObject]>>,
         <<PollKey, [step |-> PyInt(1)]>> >>,
      << <<PollKey, [ts |-> PyInt(2)]>>,
         <<FlowKey, [note |-> PyObject]>> >> }

\* number of calls in a run
MaxOps == 4

(***************************************************************************)
(* State.                                                                   *)
(***************************************************************************)
VARIABLES
    db,      \* the State table
    loaded,  \* has load_states returned a map to the caller
    states,  \* that map: materialised key -> contents of its StateDict
    last,    \* the last call: operation, key, argument, outcome, table before it
    ops,     \* number of calls made
    calls    \* per thread: the set_state call it is in, and how far it has got

vars == <<db, loaded, states, last, ops, calls>>

\* the key of a call that has none
NoKey == <<"none", 0>>

\* a row text that has not been read or built
NoText == <<"none", 0>>

\* a thread that is not inside set_state
Idle ==
    [pc |-> "idle", key |-> NoKey, chat_state |-> EmptyDict, found |-> FALSE,
     seen |-> NoText, info |-> NoText]

Threads == {1, 2}

\* arg and val carry the operation they belong to; an exception is a "raise";
\* after is the argument as the caller holds it once the call is over
Call(op, key, arg, r) ==
    [op |-> op, key |-> key, arg |-> <<op, arg>>, ok |-> r.ok,
     val |-> <<IF r.ok THEN op ELSE "raise", r.val>>, pre |-> db, had |-> states,
     after |-> <<op, IF op = "set_state" THEN caller_chat_state(arg) ELSE arg>>]

\* the argument and the value (or exception) of the last call
Arg == last.arg[2]
Val == last.val[2]

Init ==
    /\ db = {}
    /\ loaded = FALSE
    /\ states = << >>
    /\ last = [op |-> "init", key |-> NoKey, arg |-> <<"init", "none">>, ok |-> TRUE,
               val |-> <<"init", "None">>, pre |-> {}, had |-> << >>,
               after |-> <<"init", "none">>]
    /\ ops = 0
    /\ calls = [t \in Threads |-> Idle]

SetState(key, chat_state) ==
    LET r == set_state(db, key[1], key[2], chat_state)
    IN  /\ ops < MaxOps
        /\ db' = r.db
        /\ last' = Call("set_state", key, chat_state, r)
        /\ ops' = ops + 1
        /\ UNCHANGED <<loaded, states, calls>>

GetState(key) ==
    LET r == get_state(db, key[1], key[2])
    IN  /\ ops < MaxOps
        /\ db' = r.db
        /\ last' = Call("get_state", key, "none", r)
        /\ ops' = ops + 1
        /\ UNCHANGED <<loaded, states, calls>>

UpdateStates(snapshot) ==
    LET r == update_states(db, snapshot)
    IN  /\ ops < MaxOps
        /\ db' = r.db
        /\ last' = Call("update_states", NoKey, snapshot, r)
        /\ ops' = ops + 1
        /\ UNCHANGED <<loaded, states, calls>>

LoadStates ==
    LET r == load_states(db)
    IN  /\ ops < MaxOps
        /\ IF r.ok THEN loaded' = TRUE /\ states' = r.val
                   ELSE UNCHANGED <<loaded, states>>
        /\ db' = r.db
        /\ last' = Call("load_states", NoKey, "none", r)
        /\ ops' = ops + 1
        /\ UNCHANGED calls

\* states[state_id][chat_id] for a key not materialised yet
Materialise(key) ==
    LET r == default_factory(db, key)
    IN  /\ ops < MaxOps
        /\ loaded
        /\ key \notin DOMAIN states
        /\ states' = IF r.ok
                     THEN [k \in (DOMAIN states) \cup {key} |->
                                IF k = key THEN r.val ELSE states[k]]
                     ELSE states
        /\ db' = r.db
        /\ last' = Call("materialise", key, "none", r)
        /\ ops' = ops + 1
        /\ UNCHANGED <<loaded, calls>>

\* states[state_id][chat_id][field] = value
AssignField(key, field, value) ==
    LET r == StateDict_setitem(db, key, states[key], field, value)
    IN  /\ ops < MaxOps
        /\ key \in DOMAIN states
        /\ db' = r.db
        /\ states' = [states EXCEPT ![key] = r.state]
        /\ last' = Call("setitem", key, <<field, value>>, r)
        /\ ops' = ops + 1
        /\ UNCHANGED <<loaded, calls>>

\* del states[state_id][chat_id][field]
DeleteField(key, field) ==
    LET r == StateDict_delitem(db, key, states[key], field)
    IN  /\ ops < MaxOps
        /\ key \in DOMAIN states
        /\ field \in DOMAIN states[key]
        /\ db' = r.db
        /\ states' = [states EXCEPT ![key] = r.state]
        /\ last' = Call("delitem", key, field, r)
        /\ ops' = ops + 1
        /\ UNCHANGED <<loaded, calls>>

Next ==
    \/ \E key \in Keys, chat_state \in InputRecords : SetState(key, chat_state)
    \/ \E key \in Keys : GetState(key)
    \/ \E snapshot \in Snapshots : UpdateStates(snapshot)
    \/ LoadStates
    \/ \E key \in Keys : Materialise(key)
    \/ \E key \in Keys, field \in AssignedFields, value \in FieldValues :
            AssignField(key, field, value)
    \/ \E key \in Keys, value \in ScratchValues : AssignField(key, MEMORY, value)
    \/ \E key \in Keys, field \in AssignedFields \cup {"ts"} : DeleteField(key, field)

Spec == Init /\ [][Next]_vars

(***************************************************************************)
(* The codec on its own: json_encode of a record, then json_decode of the   *)
(* text it returned.                                                        *)
(***************************************************************************)
CodecAtoms ==
    {PyInt(1), PyStr(<<"hi">>), PyStr(strftime(AwareTs)), AwareTs, NaiveTs}

CodecValues ==
    CodecAtoms \cup {PyList(<<a>>) : a \in CodecAtoms}
               \cup {PyDict([g \in {f} |-> a]) : f \in {"at", "n", DATETIME}, a \in CodecAtoms}

CodecRecords ==
    {PyDict([g \in {f} |-> v]) : f \in {"ts", "note", DATETIME}, v \in CodecValues}

JsonEncode(record) ==
    /\ last' = Call("json_encode", NoKey, record, json_encode(record))
    /\ UNCHANGED <<db, loaded, states, ops, calls>>

\* the text the last json_encode returned is decoded; arg keeps the record encoded
JsonDecode ==
    /\ last.op = "json_encode" /\ last.ok
    /\ last' = Call("json_decode", NoKey, Arg, json_decode(Val))
    /\ UNCHANGED <<db, loaded, states, ops, calls>>

NextCodec ==
    \/ \E record \in CodecRecords : JsonEncode(record)
    \/ JsonDecode

SpecCodec == Init /\ [][NextCodec]_vars

(***************************************************************************)
(* Reading the table.                                                       *)
(***************************************************************************)
Present(d, key) == Lookup(d, key[2], key[1]) # {}

Info(d, key) == (CHOOSE r \in Lookup(d, key[2], key[1]) : TRUE).info

\* the key has a row whose text decodes to a mapping
Readable(d, key) ==
    Present(d, key) /\ Decodable(Info(d, key)) /\ Dec(Info(d, key))[1] = "dict"

\* the durable record of a readable key
Record(d, key) == Dec(Info(d, key))[2]

\* the field names of the stored text of a key (none while the key is absent)
FieldSet(d, key) == IF Present(d, key) THEN DOMAIN Info(d, key)[2] ELSE {}

NoScratch(m) == [f \in (DOMAIN m) \ {MEMORY} |-> m[f]]

Mutations == {"setitem", "delitem"}

\* the row of the key holds the encoding of every non-scratch field of the record
Stored(d, key, record) ==
    /\ Present(d, key)
    /\ \A f \in DOMAIN NoScratch(record) :
            f \in FieldSet(d, key) /\ Info(d, key)[2][f] = Enc(record[f])

(***************************************************************************)
(* Two threads inside set_state at once.  Each call runs in its own         *)
(* db_session: it copies its argument and drops the scratch field, reads    *)
(* and decodes the row of its key, merges and encodes (or encodes a new     *)
(* row when none was found), and its session commits when the call returns. *)
(***************************************************************************)
RaceRecords ==
    { [step |-> PyInt(1)],
      [note |-> PyStr(<<"hi">>), __memory__ |-> Scratch],
      [step |-> PyInt(2), ts |-> AwareTs],
      [ts |-> NaiveTs],
      [note |-> PyObject] }

\* number of set_state calls begun in a run of the two threads
MaxCalls == 3

\* (a slip: a row that changed after it was read is left as it is)
commit_update_first_wins(d, chat_id, state_id, seen, info) ==
    LET state == CHOOSE r \in Lookup(d, chat_id, state_id) : TRUE
    IN  Outcome(TRUE, "None",
                IF state.info = seen THEN (d \ {state}) \cup {[state EXCEPT !.info = info]}
                ELSE d)

\* commit of state.info = json_encode(info): the row is written back
commit_update(d, chat_id, state_id, seen, info) ==
    LET state == CHOOSE r \in Lookup(d, chat_id, state_id) : TRUE
    IN  Outcome(TRUE, "None", (d \ {state}) \cup {[state EXCEPT !.info = info]})

\* (a slip: the primary key is not enforced)
commit_insert_unchecked(d, chat_id, state_id, info) ==
    Outcome(TRUE, "None", InsertRow(d, chat_id, state_id, info))

\* commit of State(telegram_id=chat_id, description=state_id, info=...):
\* (telegram_id, description) is the primary key of State
commit_insert(d, chat_id, state_id, info) ==
    IF Lookup(d, chat_id, state_id) # {}
    THEN Outcome(FALSE, "IntegrityError", d)
    ELSE Outcome(TRUE, "None", InsertRow(d, chat_id, state_id, info))

\* the outcomes of the commit of a call: the store may also reject the
\* write-back of a row that was changed after the call read it
commit(d, c) ==
    IF c.found
    THEN {commit_update(d, c.key[2], c.key[1], c.seen, c.info)}
         \cup (IF (CHOOSE r \in Lookup(d, c.key[2], c.key[1]) : TRUE).info # c.seen
               THEN {Outcome(FALSE, "OptimisticCheckError", d)} ELSE {})
    ELSE {commit_insert(d, c.key[2], c.key[1], c.info)}

\* a thread calls set_state(state_id, chat_id, chat_state): copy and pop
RaceBegin(t, key, chat_state) ==
    /\ ops < MaxCalls
    /\ calls[t].pc \in {"idle", "returned", "raised"}
    /\ calls' = [calls EXCEPT ![t] =
                    [Idle EXCEPT !.pc = "begun", !.key = key,
                                 !.chat_state = StripMemory(chat_state)]]
    /\ last' = Call("race_begin", key, <<t, chat_state>>, Return("None"))
    /\ ops' = ops + 1
    /\ UNCHANGED <<db, loaded, states>>

\* state = State[chat_id, state_id]; info = json_decode(state.info)
RaceRead(t) ==
    LET c == calls[t]
        found == Lookup(db, c.key[2], c.key[1])
        state == CHOOSE r \in found : TRUE
        dec == IF found = {} THEN Return("None") ELSE json_decode(state.info)
        r == IF dec.ok /\ found # {} /\ dec.val[1] # "dict"
             THEN Raise("AttributeError") ELSE dec
    IN  /\ c.pc = "begun"
        /\ calls' = [calls EXCEPT ![t] =
                        IF ~r.ok THEN [c EXCEPT !.pc = "raised"]
                        ELSE IF found = {} THEN [c EXCEPT !.pc = "read"]
                        ELSE [c EXCEPT !.pc = "read", !.found = TRUE, !.seen = state.info]]
        /\ last' = Call("race_read", c.key, <<t, c.chat_state>>,
                        IF r.ok THEN Return("None") ELSE r)
        /\ UNCHANGED <<db, loaded, states, ops>>

\* info.update(chat_state); json_encode(info) -- or json_encode(chat_state) for a new row
RaceMerge(t) ==
    LET c == calls[t]
        enc == IF c.found THEN json_encode(PyDict(Update(Dec(c.seen)[2], c.chat_state)))
                          ELSE json_encode(PyDict(c.chat_state))
    IN  /\ c.pc = "read"
        /\ calls' = [calls EXCEPT ![t] =
                        IF enc.ok THEN [c EXCEPT !.pc = "merged", !.info = enc.val]
                        ELSE [c EXCEPT !.pc = "raised"]]
        /\ last' = Call("race_merge", c.key, <<t, c.chat_state>>,
                        IF enc.ok THEN Return("None") ELSE enc)
        /\ UNCHANGED <<db, loaded, states, ops>>

\* the call returns and its db_session commits
RaceCommit(t) ==
    LET c == calls[t]
    IN  /\ c.pc = "merged"
        /\ \E r \in commit(db, c) :
                /\ db' = r.db
                /\ calls' = [calls EXCEPT ![t] =
                                [c EXCEPT !.pc = IF r.ok THEN "returned" ELSE "raised"]]
                /\ last' = Call("race_commit", c.key, <<t, c.chat_state>>, r)
        /\ UNCHANGED <<loaded, states, ops>>

NextRace ==
    \/ \E t \in Threads, key \in Keys, chat_state \in RaceRecords : RaceBegin(t, key, chat_state)
    \/ \E t \in Threads : RaceRead(t)
    \/ \E t \in Threads : RaceMerge(t)
    \/ \E t \in Threads : RaceCommit(t)

SpecRace == Init /\ [][NextRace]_vars

(***************************************************************************)
(* C1  Merge-not-replace: after set(namespace, chat, N) returns on a key    *)
(* whose durable record is R, the durable record has N's value for every    *)
(* non-scratch field of N, R's value for every field of R that N does not   *)
(* name, and no other field.                                                *)
(***************************************************************************)
C1_MergeNotReplace ==
    (last.op = "set_state" /\ last.ok /\ Readable(last.pre, last.key)) =>
        /\ Readable(db, last.key)
        /\ LET R == Record(last.pre, last.key)
               N == Arg
               D == Record(db, last.key)
           IN  /\ \A f \in (DOMAIN N) \ {MEMORY} : f \in DOMAIN D /\ D[f] = N[f]
               /\ \A f \in (DOMAIN R) \ (DOMAIN N) : f \in DOMAIN D /\ D[f] = R[f]
               /\ DOMAIN D \subseteq (DOMAIN R) \cup ((DOMAIN N) \ {MEMORY})

(***************************************************************************)
(* C2  Write-through consistency: after a mutation of a Write-Through       *)
(* Record returns, the durable record of its key equals the in-memory       *)
(* contents without the scratch field: the stored row is the encoding of    *)
(* exactly the non-scratch fields the record holds in memory.               *)
(***************************************************************************)
C2_WriteThroughConsistency ==
    (last.op \in Mutations /\ last.ok) =>
        /\ Present(db, last.key)
        /\ Info(db, last.key) = Enc(PyDict(NoScratch(states[last.key])))

(***************************************************************************)
(* C3  Scratch never persisted: no stored row has the field '__memory__'.   *)
(***************************************************************************)
C3_ScratchNeverPersisted ==
    \A r \in db : r.info[1] = "object" /\ MEMORY \notin DOMAIN r.info[2]

\* a record carrying scratch contents has been written by set
C3_Witness ==
    /\ last.op = "set_state" /\ last.ok
    /\ MEMORY \in DOMAIN Arg /\ Arg[MEMORY] = Scratch
    /\ Present(db, last.key)

(***************************************************************************)
(* C4  Scratch isolation: assigning the scratch field of a Write-Through    *)
(* Record leaves the field set of the durable record of its key as it was,  *)
(* and every map load_all returns holds an empty scratch field for every    *)
(* key, whatever the scratch contents were before.                          *)
(***************************************************************************)
C4_ScratchIsolation ==
    /\ (last.op = "setitem" /\ Arg[1] = MEMORY) =>
            FieldSet(db, last.key) = FieldSet(last.pre, last.key)
    /\ (last.op = "load_states" /\ last.ok) =>
            \A key \in DOMAIN states :
                MEMORY \in DOMAIN states[key] /\ states[key][MEMORY] = PyDict(EmptyDict)

\* load_all has returned a map for a key whose earlier record held scratch contents
C4_Witness ==
    /\ last.op = "load_states" /\ last.ok
    /\ \E key \in (DOMAIN last.had) \cap (DOMAIN states) :
            /\ last.had[key][MEMORY] = Scratch
            /\ states[key][MEMORY] = PyDict(EmptyDict)
            /\ FieldSet(db, key) # {}

(***************************************************************************)
(* C5  Miss-then-create: get on an absent key returns the empty mapping     *)
(* without error, and after set(namespace, chat, R) on an absent key the    *)
(* next get returns R without its scratch field.                            *)
(***************************************************************************)
C5_MissThenCreate ==
    /\ (last.op = "get_state" /\ ~Present(last.pre, last.key)) =>
            (last.ok /\ Val = PyDict(EmptyDict))
    /\ (last.op = "set_state" /\ last.ok /\ ~Present(last.pre, last.key)) =>
            LET g == get_state(db, last.key[1], last.key[2])
            IN  g.ok /\ g.val = PyDict(NoScratch(Arg))

(***************************************************************************)
(* C6  Codec round-trip: decoding the text a record was encoded to returns  *)
(* a value equal to the record, timestamps as timestamps and mappings as    *)
(* mappings.                                                                *)
(***************************************************************************)
C6_RoundTrip ==
    /\ last.op = "json_encode" => last.ok
    /\ last.op = "json_decode" => (last.ok /\ Val = Arg)

(***************************************************************************)
(* C7  Load-then-mutate: for a durable record R, after load_all and then    *)
(* the assignment f := v on the record of its key, the durable record is    *)
(* R with f := v, every other field keeping its value and type.             *)
(***************************************************************************)
C7_LoadThenMutate ==
    ( /\ last.op = "setitem" /\ last.ok /\ Arg[1] # MEMORY
      /\ Readable(last.pre, last.key)
      /\ NoScratch(last.had[last.key]) = Record(last.pre, last.key) ) =>
        /\ Readable(db, last.key)
        /\ Record(db, last.key) =
                SetItem(Record(last.pre, last.key), Arg[1], Arg[2])

(***************************************************************************)
(* C8  Lazy default materialization, as claimed: the record built for a key *)
(* load_all did not scan has empty non-scratch contents and an empty        *)
(* scratch field.                                                           *)
(***************************************************************************)
C8_LazyDefaultEmpty ==
    (last.op = "materialise" /\ last.ok) =>
        /\ NoScratch(states[last.key]) = EmptyDict
        /\ MEMORY \in DOMAIN states[last.key]
        /\ states[last.key][MEMORY] = PyDict(EmptyDict)

(***************************************************************************)
(* C8, amended: the record built for a key load_all did not scan holds what *)
(* get returns for the key at the time of the access (the empty mapping     *)
(* while the key is absent, and then the access does not fail) and an       *)
(* empty scratch field; a later mutation of the record calls set for        *)
(* exactly its key: no other row changes, and when the mutation returns     *)
(* the row of the key holds every non-scratch field of the record (a new    *)
(* row holds nothing else), and when it fails the table is as before.       *)
(***************************************************************************)
OtherRows(d, key) == {r \in d : RowKey(r) # key}

C8_LazyDefault ==
    /\ (last.op = "materialise" /\ last.ok) =>
            /\ MEMORY \in DOMAIN states[last.key]
            /\ states[last.key][MEMORY] = PyDict(EmptyDict)
            /\ IF Present(db, last.key)
               THEN Readable(db, last.key)
                    /\ NoScratch(states[last.key]) = Record(db, last.key)
               ELSE NoScratch(states[last.key]) = EmptyDict
    /\ (last.op = "materialise" /\ ~Present(db, last.key)) => last.ok
    /\ last.op \in Mutations =>
            /\ OtherRows(db, last.key) = OtherRows(last.pre, last.key)
            /\ last.ok => Stored(db, last.key, states[last.key])
            /\ (last.ok /\ ~Present(last.pre, last.key)) =>
                    FieldSet(db, last.key) = DOMAIN NoScratch(states[last.key])
            /\ ~last.ok => db = last.pre

\* a field of a record built for an absent key has been assigned, and its row created
C8_Witness ==
    /\ last.op = "setitem" /\ last.ok /\ Arg[1] # MEMORY
    /\ ~Present(last.pre, last.key)
    /\ NoScratch(last.had[last.key]) = EmptyDict
    /\ Present(db, last.key)

(***************************************************************************)
(* C9  update_all applies keys independently, as claimed: when update_all   *)
(* fails on one key, the set of every other key of the snapshot is applied. *)
(***************************************************************************)
C9_KeysIndependent ==
    (last.op = "update_states" /\ ~last.ok) =>
        \A i \in DOMAIN Arg :
            set_state(last.pre, Arg[i][1][1], Arg[i][1][2], Arg[i][2]).ok
                => Stored(db, Arg[i][1], Arg[i][2])

(***************************************************************************)
(* C9, amended: update_all is all or nothing.  When the set of one key      *)
(* fails, update_all fails, no later key is applied and the sets already    *)
(* made are rolled back: the table is as before the call.  When it          *)
(* returns, the record of every key of the snapshot is stored.              *)
(***************************************************************************)
C9_AllOrNothing ==
    /\ (last.op = "update_states" /\ ~last.ok) => db = last.pre
    /\ (last.op = "update_states" /\ last.ok) =>
            \A i \in DOMAIN Arg : Stored(db, Arg[i][1], Arg[i][2])

\* update_all has failed on a later key after the set of an earlier key had succeeded
C9_Witness ==
    /\ last.op = "update_states" /\ ~last.ok
    /\ LET first == Arg[1]
           r == set_state(last.pre, first[1][1], first[1][2], first[2])
       IN  r.ok /\ r.db # last.pre
    /\ db = last.pre

(***************************************************************************)
(* C10  Key lifecycle: every key starts absent, a set that returns leaves   *)
(* its key present whatever record was passed, and a key that is present    *)
(* before a call is present after it.                                       *)
(***************************************************************************)
C10_KeyLifecycle ==
    /\ ops = 0 => \A key \in Keys : ~Present(db, key)
    /\ (last.op = "set_state" /\ last.ok) => Present(db, last.key)
    /\ \A key \in Keys : Present(last.pre, key) => Present(db, key)

\* a set with a record without fields has made an absent key present
C10_Witness ==
    /\ last.op = "set_state" /\ last.ok
    /\ NoScratch(Arg) = EmptyDict
    /\ ~Present(last.pre, last.key)
    /\ Present(db, last.key)

(***************************************************************************)
(* C11  Read-merge-write race: whenever a set call writes its row back --   *)
(* also when another call on the key has read, merged or written in the     *)
(* meantime -- the durable record holds every field of that call's record   *)
(* with that call's value, so the final record holds the fields of the call *)
(* that wrote last.                                                         *)
(***************************************************************************)
C11_LastWriterWins ==
    (last.op = "race_commit" /\ last.ok) => Stored(db, last.key, Arg[2])

\* two calls on one existing key have both returned, and a field the earlier
\* writer wrote is not in the final record
C11_Witness ==
    /\ last.op = "race_commit" /\ last.ok
    /\ \E t \in Threads, u \in Threads :
            /\ t # u /\ t = Arg[1]
            /\ calls[t].found /\ calls[u].found
            /\ calls[u].pc = "returned" /\ calls[u].key = last.key
            /\ \E f \in DOMAIN calls[u].chat_state : f \notin FieldSet(db, last.key)

(***************************************************************************)
(* C12  Key uniqueness: the table never holds two rows of one               *)
(* (chat, namespace) key, also after two set calls have interleaved on a    *)
(* key that had no row.                                                     *)
(***************************************************************************)
C12_KeyUniqueness ==
    \A key \in Keys : Cardinality(Lookup(db, key[2], key[1])) <= 1

\* two calls found no row for the same key; one has created it and the
\* commit of the other has been refused
C12_Witness ==
    /\ last.op = "race_commit" /\ ~last.ok /\ Val = "IntegrityError"
    /\ \E u \in Threads :
            /\ u # Arg[1]
            /\ calls[u].pc = "returned" /\ ~calls[u].found /\ calls[u].key = last.key
    /\ Cardinality(Lookup(db, last.key[2], last.key[1])) = 1

(***************************************************************************)
(* C13  Encoding failure leaves the store untouched: set with a record      *)
(* holding a value the codec cannot encode fails, and the table is exactly  *)
(* as before the call -- no row is created for an absent key and the row of *)
(* a present key is not changed.                                            *)
(***************************************************************************)
C13_EncodeFailureNoWrite ==
    (last.op = "set_state" /\ ~Encodable(PyDict(NoScratch(Arg)))) =>
        /\ ~last.ok
        /\ db = last.pre
        /\ Present(db, last.key) <=> Present(last.pre, last.key)
        /\ ~Present(last.pre, last.key) => Val = "TypeError"
        /\ Readable(last.pre, last.key) => Val = "TypeError"

\* set has been refused for an unencodable record on a key whose row could be read
C13_Witness ==
    /\ last.op = "set_state" /\ ~last.ok /\ Val = "TypeError"
    /\ \E f \in DOMAIN Arg : Arg[f] = PyObject
    /\ Readable(last.pre, last.key)
    /\ Info(db, last.key) = Info(last.pre, last.key)

(***************************************************************************)
(* C14  Decoding failure aborts the operation: when the text of a stored    *)
(* row cannot be decoded, get and set on its key fail and leave the table   *)
(* as it was, and load_all fails as a whole: the caller is handed no map,   *)
(* not even one holding the rows that do decode.                            *)
(***************************************************************************)
C14_DecodeFailureAborts ==
    /\ ( /\ last.op \in {"get_state", "set_state"}
         /\ Present(last.pre, last.key)
         /\ ~Decodable(Info(last.pre, last.key)) ) =>
            (~last.ok /\ Val = "ValueError" /\ db = last.pre)
    /\ (last.op = "load_states" /\ \E r \in last.pre : ~Decodable(r.info)) =>
            (~last.ok /\ Val = "ValueError" /\ db = last.pre /\ states = last.had)

\* load_all has failed on a table holding a row that decodes and one that does not
C14_Witness ==
    /\ last.op = "load_states" /\ ~last.ok
    /\ \E r \in db : ~Decodable(r.info)
    /\ \E r \in db : Decodable(r.info) /\ Dec(r.info)[1] = "dict"
    /\ states = << >>

(***************************************************************************)
(* C15  Per-key independence: set(namespace, chat, R), and a mutation of    *)
(* the Write-Through Record of (namespace, chat), change no row but the row *)
(* of that key: the rows of every other key are the same before and after,  *)
(* whether the call returns or fails.                                       *)
(***************************************************************************)
C15_PerKeyIndependence ==
    last.op \in {"set_state"} \cup Mutations =>
        \A key \in Keys \ {last.key} :
            /\ Present(db, key) <=> Present(last.pre, key)
            /\ Lookup(db, key[2], key[1]) = Lookup(last.pre, key[2], key[1])

\* a record load_all built has been mutated and its row rewritten while
\* another key had a row
C15_Witness ==
    /\ last.op \in Mutations /\ last.ok
    /\ Present(last.pre, last.key)
    /\ Info(db, last.key) # Info(last.pre, last.key)
    /\ \E key \in Keys \ {last.key} : Present(last.pre, key)

(***************************************************************************)
(* C16  Reads do not write: get, load_all and the first access to a key of  *)
(* the loaded map leave the table as it was, so a key without a row gets    *)
(* one only by a set for it (alone or within update_all) or by a mutation   *)
(* of its record.                                                           *)
(***************************************************************************)
C16_ReadsDoNotWrite ==
    /\ last.op \in {"get_state", "load_states", "materialise"} => db = last.pre
    /\ \A key \in Keys :
            (~Present(last.pre, key) /\ Present(db, key)) =>
                \/ last.op \in {"set_state"} \cup Mutations /\ last.key = key
                \/ last.op = "update_states" /\ \E i \in DOMAIN Arg : Arg[i][1] = key

\* a key without a row has been read by get after its record had been built
\* by the loaded map, and it still has no row
C16_Witness ==
    /\ last.op = "get_state" /\ last.ok
    /\ last.key \in DOMAIN states
    /\ ~Present(db, last.key)
    /\ loaded

C18_DurableCoversMemory ==
    (last.op \in Mutations /\ last.ok) =>
        /\ Readable(db, last.key)
        /\ \A f \in DOMAIN NoScratch(states[last.key]) :
                /\ f \in DOMAIN Record(db, last.key)
                /\ Record(db, last.key)[f] = states[last.key][f]

(***************************************************************************)
(* C19  set is idempotent: right after set(namespace, chat, R) with an      *)
(* encodable record R, a second set(namespace, chat, R) leaves the table    *)
(* as the first one left it, whether the key had a row before or not.       *)
(***************************************************************************)
C19_SetIdempotent ==
    (last.op = "set_state" /\ Encodable(PyDict(NoScratch(Arg)))) =>
        set_state(db, last.key[1], last.key[2], Arg).db = db

\* a set has changed the row of a present key, and a second set with the
\* same record would return
C19_Witness ==
    /\ last.op = "set_state" /\ last.ok
    /\ Present(last.pre, last.key)
    /\ Info(db, last.key) # Info(last.pre, last.key)
    /\ NoScratch(Arg) # EmptyDict
    /\ set_state(db, last.key[1], last.key[2], Arg).ok

====
